---- MODULE Spec2Model ----
(***************************************************************************)
(* Model of examples/snippets/servers/recurly_integration.py: five tools   *)
(* registered on a FastMCP server.  Every tool body is a single `return`   *)
(* of a dict literal built from the bound parameters.  The module keeps    *)
(* no variable of its own, so the only state there is to observe is the    *)
(* trace of completed tool calls: who called, which tool, with which       *)
(* arguments as sent (an optional parameter may be absent), and how the    *)
(* function completed.                                                     *)
(***************************************************************************)
EXTENDS Integers, Sequences, FiniteSets

VARIABLES log

vars == <<log>>

\* ------------------------------------------------------------------ bounds

\* Number of tool calls a behaviour records.
MaxCalls == 2

\* Number of tool calls a behaviour of one customer's session records.
MaxSessionCalls == 4

\* ------------------------------------------------------------------ inputs

\* Concurrent clients of the server.
Callers == {"caller_a", "caller_b"}

\* Values of the `str` and `int` parameters.  The annotations accept every
\* string, the empty one included, and every integer.
CustomerIds == {"", "cust_001"}

PlanCodes == {"premium", "no_such_plan"}

Currencies == {"USD", "EUR"}

SubscriptionIds == {"sub_12345", "sub_new_12345", "sub_999"}

Limits == {-1, 0, 10, 25}

\* ------------------------------------------------- Python call semantics

\* Completion of a function body by `return v`.
Return(v) == [kind |-> "return", value |-> v]

\* Binding of a parameter: the argument sent, else the signature's default.
Bind(args, name, default) == IF name \in DOMAIN args THEN args[name] ELSE default

\* `limit: int = 10`
DefaultLimit == 10

\* Variant: another default currency.
DefaultCurrency_EUR == "EUR"

\* `currency: str = "USD"`
DefaultCurrency == "USD"

\* --------------------------------------------------------------- the tools

\* Variant: the placeholder id is returned instead of the argument.
get_customer_info_fixed_id(customer_id) ==
    Return([customer_id |-> "cust_001",
            name        |-> "Example Customer",
            email       |-> "customer@example.com",
            status      |-> "active"])

\* Variant: an empty customer_id is rejected, as a validating lookup would.
get_customer_info_nonempty(customer_id) ==
    IF customer_id = ""
    THEN [kind |-> "raise", error |-> "ValueError"]
    ELSE Return([customer_id |-> customer_id,
                 name        |-> "Example Customer",
                 email       |-> "customer@example.com",
                 status      |-> "active"])

get_customer_info(customer_id) ==
    Return([customer_id |-> customer_id,
            name        |-> "Example Customer",
            email       |-> "customer@example.com",
            status      |-> "active"])

\* Variant: total_count reports the requested limit, not the entries returned.
list_subscriptions_count_is_limit(customer_id, limit) ==
    Return([customer_id   |-> customer_id,
            subscriptions |-> << [subscription_id        |-> "sub_12345",
                                  plan_code              |-> "premium",
                                  state                  |-> "active",
                                  current_period_ends_at |-> "2025-02-01"] >>,
            total_count   |-> limit,
            has_more      |-> FALSE])

\* Variant: `limit` is honoured, as the commented-out real call would.
list_subscriptions_limited(customer_id, limit) ==
    LET all  == << [subscription_id        |-> "sub_12345",
                    plan_code              |-> "premium",
                    state                  |-> "active",
                    current_period_ends_at |-> "2025-02-01"] >>
        n    == IF limit < 0 THEN 0 ELSE IF limit < Len(all) THEN limit ELSE Len(all)
        page == SubSeq(all, 1, n)
    IN  Return([customer_id   |-> customer_id,
                subscriptions |-> page,
                total_count   |-> Len(page),
                has_more      |-> Len(page) < Len(all)])

\* Variant: the listed subscription reflects cancellations made by earlier calls.
list_subscriptions_stateful(customer_id, limit) ==
    LET canceled == \E i \in DOMAIN log :
                        /\ log[i].tool = "cancel_subscription"
                        /\ log[i].args.subscription_id = "sub_12345"
    IN  Return([customer_id   |-> customer_id,
                subscriptions |-> << [subscription_id        |-> "sub_12345",
                                      plan_code              |-> "premium",
                                      state                  |-> IF canceled THEN "canceled"
                                                                             ELSE "active",
                                      current_period_ends_at |-> "2025-02-01"] >>,
                total_count   |-> 1,
                has_more      |-> FALSE])

\* `limit` is bound and never read.
list_subscriptions(customer_id, limit) ==
    Return([customer_id   |-> customer_id,
            subscriptions |-> << [subscription_id        |-> "sub_12345",
                                  plan_code              |-> "premium",
                                  state                  |-> "active",
                                  current_period_ends_at |-> "2025-02-01"] >>,
            total_count   |-> 1,
            has_more      |-> FALSE])

\* Variant: the currency is hard-coded like the other placeholder fields.
create_subscription_usd_only(customer_id, plan_code, currency) ==
    Return([subscription_id |-> "sub_new_12345",
            customer_id     |-> customer_id,
            plan_code       |-> plan_code,
            currency        |-> "USD",
            state           |-> "active",
            created_at      |-> "2025-01-01T00:00:00Z"])

create_subscription(customer_id, plan_code, currency) ==
    Return([subscription_id |-> "sub_new_12345",
            customer_id     |-> customer_id,
            plan_code       |-> plan_code,
            currency        |-> currency,
            state           |-> "active",
            created_at      |-> "2025-01-01T00:00:00Z"])

\* Variant: the cancellation takes effect at the end of the running cycle.
cancel_subscription_end_of_cycle(subscription_id) ==
    Return([subscription_id          |-> subscription_id,
            status                   |-> "canceled",
            canceled_at              |-> "2025-01-01T00:00:00Z",
            remaining_billing_cycles |-> 1])

\* Variant: only a subscription created earlier and not yet canceled can be
\* canceled, as the commented-out real call would enforce.
cancel_subscription_lookup(subscription_id) ==
    LET created  == \E i \in DOMAIN log :
                        /\ log[i].tool = "create_subscription"
                        /\ log[i].result.kind = "return"
                        /\ log[i].result.value.subscription_id = subscription_id
        canceled == \E i \in DOMAIN log :
                        /\ log[i].tool = "cancel_subscription"
                        /\ log[i].args.subscription_id = subscription_id
    IN  IF created /\ ~canceled
        THEN Return([subscription_id          |-> subscription_id,
                     status                   |-> "canceled",
                     canceled_at              |-> "2025-01-01T00:00:00Z",
                     remaining_billing_cycles |-> 0])
        ELSE [kind |-> "raise", error |-> "NotFoundError"]

cancel_subscription(subscription_id) ==
    Return([subscription_id          |-> subscription_id,
            status                   |-> "canceled",
            canceled_at              |-> "2025-01-01T00:00:00Z",
            remaining_billing_cycles |-> 0])

\* Variant: the plan name is looked up from the plan code.
get_plan_details_catalog(plan_code) ==
    Return([plan_code          |-> plan_code,
            plan_name          |-> IF plan_code = "premium" THEN "Premium Plan"
                                                            ELSE "Unknown Plan",
            description        |-> "Premium subscription plan with unlimited features",
            price              |-> [digits |-> 9999, scale |-> 2],
            currency           |-> "USD",
            billing_cycle_type |-> "monthly",
            trial_duration     |-> 0])

\* The float literal 99.99 is kept exactly, as its decimal digits and scale.
get_plan_details(plan_code) ==
    Return([plan_code          |-> plan_code,
            plan_name          |-> "Premium Plan",
            description        |-> "Premium subscription plan with unlimited features",
            price              |-> [digits |-> 9999, scale |-> 2],
            currency           |-> "USD",
            billing_cycle_type |-> "monthly",
            trial_duration     |-> 0])

\* ------------------------------------------------------ argument mappings

GetCustomerInfoArgs == { [customer_id |-> c] : c \in CustomerIds }

ListSubscriptionsArgs ==
    { [customer_id |-> c] : c \in CustomerIds }
        \cup { [customer_id |-> c, limit |-> l] : c \in CustomerIds, l \in Limits }

CreateSubscriptionArgs ==
    { [customer_id |-> c, plan_code |-> p] : c \in CustomerIds, p \in PlanCodes }
        \cup { [customer_id |-> c, plan_code |-> p, currency |-> y] :
                   c \in CustomerIds, p \in PlanCodes, y \in Currencies }

CancelSubscriptionArgs == { [subscription_id |-> s] : s \in SubscriptionIds }

GetPlanDetailsArgs == { [plan_code |-> p] : p \in PlanCodes }

\* ------------------------------------------------------------ the machine

Init == log = << >>

Record(c, tool, args, result) ==
    log' = Append(log, [caller |-> c, tool |-> tool, args |-> args, result |-> result])

\* One action per registered tool: the call runs to completion in one step
\* (the bodies are synchronous and never yield).
GetCustomerInfo(c, args) ==
    Record(c, "get_customer_info", args, get_customer_info(args.customer_id))

ListSubscriptions(c, args) ==
    Record(c, "list_subscriptions", args,
           list_subscriptions(args.customer_id, Bind(args, "limit", DefaultLimit)))

CreateSubscription(c, args) ==
    Record(c, "create_subscription", args,
           create_subscription(args.customer_id, args.plan_code,
                               Bind(args, "currency", DefaultCurrency)))

CancelSubscription(c, args) ==
    Record(c, "cancel_subscription", args, cancel_subscription(args.subscription_id))

GetPlanDetails(c, args) ==
    Record(c, "get_plan_details", args, get_plan_details(args.plan_code))

\* A behaviour records at most `budget` calls.
CanCall(budget) == Len(log) < budget

\* Any caller calls any tool with any arguments, MaxCalls times in all.
Next ==
    \E c \in Callers :
        \/ \E args \in GetCustomerInfoArgs :
               CanCall(MaxCalls) /\ GetCustomerInfo(c, args)
        \/ \E args \in ListSubscriptionsArgs :
               CanCall(MaxCalls) /\ ListSubscriptions(c, args)
        \/ \E args \in CreateSubscriptionArgs :
               CanCall(MaxCalls) /\ CreateSubscription(c, args)
        \/ \E args \in CancelSubscriptionArgs :
               CanCall(MaxCalls) /\ CancelSubscription(c, args)
        \/ \E args \in GetPlanDetailsArgs :
               CanCall(MaxCalls) /\ GetPlanDetails(c, args)

Spec == Init /\ [][Next]_vars

\* Longer interleavings of the callers' calls, over the arguments of one
\* customer's session: the same actions, fewer argument values, more calls.
SessionCustomerIds == {"cust_001"}

SessionListArgs ==
    { a \in ListSubscriptionsArgs :
          /\ a.customer_id \in SessionCustomerIds
          /\ "limit" \in DOMAIN a => a.limit = 0 }

SessionCreateArgs ==
    { a \in CreateSubscriptionArgs :
          /\ a.customer_id \in SessionCustomerIds
          /\ a.plan_code = "premium"
          /\ "currency" \notin DOMAIN a }

SessionCancelArgs ==
    { a \in CancelSubscriptionArgs : a.subscription_id \in {"sub_12345", "sub_new_12345"} }

SessionGetCustomerInfoArgs ==
    { a \in GetCustomerInfoArgs : a.customer_id \in SessionCustomerIds }

SessionGetPlanDetailsArgs == { a \in GetPlanDetailsArgs : a.plan_code = "premium" }

SessionNext ==
    \E c \in Callers :
        \/ \E args \in SessionGetCustomerInfoArgs :
               CanCall(MaxSessionCalls) /\ GetCustomerInfo(c, args)
        \/ \E args \in SessionListArgs :
               CanCall(MaxSessionCalls) /\ ListSubscriptions(c, args)
        \/ \E args \in SessionCreateArgs :
               CanCall(MaxSessionCalls) /\ CreateSubscription(c, args)
        \/ \E args \in SessionCancelArgs :
               CanCall(MaxSessionCalls) /\ CancelSubscription(c, args)
        \/ \E args \in SessionGetPlanDetailsArgs :
               CanCall(MaxSessionCalls) /\ GetPlanDetails(c, args)

SessionSpec == Init /\ [][SessionNext]_vars

\* ----------------------------------------------------------- observations

\* Positions of the recorded calls of one tool.
CallsOf(tool) == { i \in DOMAIN log : log[i].tool = tool }

Returned(i) == log[i].result.kind = "return"

Sent(i, name) == name \in DOMAIN log[i].args

\* The single placeholder entry list_subscriptions is specified to return.
PlaceholderSubscription ==
    [subscription_id        |-> "sub_12345",
     plan_code              |-> "premium",
     state                  |-> "active",
     current_period_ends_at |-> "2025-02-01"]

\* The fields of each result record, from the data model's table.
ResultFields(tool) ==
    CASE tool = "get_customer_info"   -> {"customer_id", "name", "email", "status"}
      [] tool = "list_subscriptions"  -> {"customer_id", "subscriptions", "total_count",
                                          "has_more"}
      [] tool = "create_subscription" -> {"subscription_id", "customer_id", "plan_code",
                                          "currency", "state", "created_at"}
      [] tool = "cancel_subscription" -> {"subscription_id", "status", "canceled_at",
                                          "remaining_billing_cycles"}
      [] tool = "get_plan_details"    -> {"plan_code", "plan_name", "description", "price",
                                          "currency", "billing_cycle_type",
                                          "trial_duration"}

\* ------------------------------------------------------------------ claims

\* C1: every get_customer_info call returns exactly the record
\* {customer_id: the argument, name: "Example Customer",
\*  email: "customer@example.com", status: "active"}, with no further field.
C1_CustomerInfoEchoesId ==
    \A i \in CallsOf("get_customer_info") :
        /\ Returned(i)
        /\ log[i].result.value = [customer_id |-> log[i].args.customer_id,
                                  name        |-> "Example Customer",
                                  email       |-> "customer@example.com",
                                  status      |-> "active"]

\* The concrete scenario get_customer_info("cust_001"), and a call with another id.
C1_Witness ==
    \E i, j \in CallsOf("get_customer_info") :
        /\ log[i].args.customer_id = "cust_001"
        /\ Returned(i)
        /\ log[i].result.value = [customer_id |-> "cust_001",
                                  name        |-> "Example Customer",
                                  email       |-> "customer@example.com",
                                  status      |-> "active"]
        /\ log[j].args.customer_id # "cust_001"
        /\ Returned(j)

\* C2: every list_subscriptions call, with limit sent or omitted, returns a
\* record whose customer_id is the argument and whose total_count is the
\* number of entries of its subscriptions sequence.
C2_TotalCountIsLength ==
    \A i \in CallsOf("list_subscriptions") :
        /\ Returned(i)
        /\ log[i].result.value.customer_id = log[i].args.customer_id
        /\ log[i].result.value.total_count = Len(log[i].result.value.subscriptions)

\* One call with limit omitted and one with a limit other than the count.
C2_Witness ==
    \E i, j \in CallsOf("list_subscriptions") :
        /\ ~Sent(i, "limit")
        /\ Sent(j, "limit")
        /\ Returned(i) /\ Returned(j)
        /\ log[j].args.limit # log[j].result.value.total_count
        /\ log[j].result.value.total_count = Len(log[j].result.value.subscriptions)

\* C3: every create_subscription call that sends a currency returns a record
\* whose customer_id, plan_code and currency are the three arguments and
\* whose state is "active", whatever the plan_code.
C3_CreateEchoesInputs ==
    \A i \in CallsOf("create_subscription") :
        Sent(i, "currency") =>
            /\ Returned(i)
            /\ log[i].result.value.customer_id = log[i].args.customer_id
            /\ log[i].result.value.plan_code = log[i].args.plan_code
            /\ log[i].result.value.currency = log[i].args.currency
            /\ log[i].result.value.state = "active"

\* A call with a currency other than the default and a plan code that no
\* other tool knows.
C3_Witness ==
    \E i \in CallsOf("create_subscription") :
        /\ Sent(i, "currency")
        /\ log[i].args.currency = "EUR"
        /\ log[i].args.plan_code = "no_such_plan"
        /\ Returned(i)
        /\ log[i].result.value.currency = "EUR"
        /\ log[i].result.value.plan_code = "no_such_plan"
        /\ log[i].result.value.state = "active"

\* C4: a create_subscription call that sends no currency returns exactly
\* {subscription_id: "sub_new_12345", customer_id, plan_code, currency: "USD",
\*  state: "active", created_at: "2025-01-01T00:00:00Z"}, the same completion
\* as a call with the same customer_id and plan_code that sends "USD".
C4_OmittedCurrencyIsUSD ==
    \A i \in CallsOf("create_subscription") :
        ~Sent(i, "currency") =>
            /\ Returned(i)
            /\ log[i].result.value = [subscription_id |-> "sub_new_12345",
                                      customer_id     |-> log[i].args.customer_id,
                                      plan_code       |-> log[i].args.plan_code,
                                      currency        |-> "USD",
                                      state           |-> "active",
                                      created_at      |-> "2025-01-01T00:00:00Z"]
            /\ \A j \in CallsOf("create_subscription") :
                   ( /\ Sent(j, "currency")
                     /\ log[j].args.currency = "USD"
                     /\ log[j].args.customer_id = log[i].args.customer_id
                     /\ log[j].args.plan_code = log[i].args.plan_code )
                       => log[j].result = log[i].result

\* The concrete scenario create_subscription("cust_001", "premium") beside
\* the same call with "USD" sent.
C4_Witness ==
    \E i, j \in CallsOf("create_subscription") :
        /\ log[i].args = [customer_id |-> "cust_001", plan_code |-> "premium"]
        /\ log[j].args = [customer_id |-> "cust_001", plan_code |-> "premium",
                          currency |-> "USD"]
        /\ Returned(i)
        /\ log[i].result.value.currency = "USD"
        /\ log[i].result.value.subscription_id = "sub_new_12345"

\* C5: every cancel_subscription call returns a record whose subscription_id
\* is the argument, whose status is "canceled" and whose
\* remaining_billing_cycles is 0.
C5_CancelEchoesId ==
    \A i \in CallsOf("cancel_subscription") :
        /\ Returned(i)
        /\ log[i].result.value.subscription_id = log[i].args.subscription_id
        /\ log[i].result.value.status = "canceled"
        /\ log[i].result.value.remaining_billing_cycles = 0

\* Two cancellations of different ids.
C5_Witness ==
    \E i, j \in CallsOf("cancel_subscription") :
        /\ log[i].args.subscription_id # log[j].args.subscription_id
        /\ Returned(i) /\ Returned(j)
        /\ log[i].result.value.status = "canceled"
        /\ log[j].result.value.subscription_id = log[j].args.subscription_id

\* C6: every get_plan_details call returns a record whose plan_code is the
\* argument and whose other fields are the same constants for every argument.
C6_PlanDetailsEchoesCode ==
    \A i \in CallsOf("get_plan_details") :
        /\ Returned(i)
        /\ log[i].result.value.plan_code = log[i].args.plan_code
        /\ \A j \in CallsOf("get_plan_details") :
               Returned(j) =>
                   \A f \in DOMAIN log[i].result.value \ {"plan_code"} :
                       /\ f \in DOMAIN log[j].result.value
                       /\ log[j].result.value[f] = log[i].result.value[f]

\* Two calls with different plan codes.
C6_Witness ==
    \E i, j \in CallsOf("get_plan_details") :
        /\ log[i].args.plan_code = "premium"
        /\ log[j].args.plan_code = "no_such_plan"
        /\ Returned(i) /\ Returned(j)
        /\ log[j].result.value.plan_code = "no_such_plan"
        /\ log[j].result.value.plan_name = log[i].result.value.plan_name

\* C7: every call of every tool completes by returning its result record,
\* never by an error; cancel_subscription too, for an id no create_subscription
\* call returned and for an id an earlier call canceled.
C7_EveryCallReturns ==
    \A i \in DOMAIN log :
        /\ Returned(i)
        /\ DOMAIN log[i].result.value = ResultFields(log[i].tool)

\* A cancellation of an id that no earlier call created, then a second
\* cancellation of the same id.
C7_Witness ==
    \E i, j \in CallsOf("cancel_subscription") :
        /\ i < j
        /\ log[i].args.subscription_id = log[j].args.subscription_id
        /\ \A k \in CallsOf("create_subscription") :
               Returned(k) =>
                   log[k].result.value.subscription_id # log[i].args.subscription_id
        /\ Returned(i) /\ Returned(j)
        /\ log[j].result.value.status = "canceled"

\* C8 as stated: get_customer_info with the empty string does not yield a
\* CustomerInfo record, while every non-empty string does.
C8_EmptyIdRejected ==
    \A i \in CallsOf("get_customer_info") :
        /\ log[i].args.customer_id = "" => ~Returned(i)
        /\ log[i].args.customer_id # "" => Returned(i)

\* C8 as amended: get_customer_info puts no constraint on customer_id: a call
\* with the empty string returns a CustomerInfo record whose customer_id is
\* the empty string, and a call with a non-empty string returns one too.
C8_EmptyIdAccepted ==
    \A i \in CallsOf("get_customer_info") :
        /\ log[i].args.customer_id = "" =>
               /\ Returned(i)
               /\ DOMAIN log[i].result.value = ResultFields("get_customer_info")
               /\ log[i].result.value.customer_id = ""
        /\ log[i].args.customer_id # "" =>
               /\ Returned(i)
               /\ DOMAIN log[i].result.value = ResultFields("get_customer_info")

\* A call with the empty string that returned, beside one with a non-empty string.
C8_Witness ==
    \E i, j \in CallsOf("get_customer_info") :
        /\ log[i].args.customer_id = ""
        /\ Returned(i)
        /\ log[i].result.value.customer_id = ""
        /\ log[j].args.customer_id # ""
        /\ Returned(j)

C10_NoSharedState ==
    /\ \A i, j \in DOMAIN log :
           (log[i].tool = log[j].tool /\ log[i].args = log[j].args)
               => log[i].result = log[j].result
    /\ \A j \in CallsOf("list_subscriptions") :
           (\E i \in 1..(j - 1) :
                log[i].tool \in {"create_subscription", "cancel_subscription"})
               => /\ Returned(j)
                  /\ log[j].result.value.subscriptions = << PlaceholderSubscription >>
                  /\ log[j].result.value.total_count = 1

\* One caller lists a customer's subscriptions, another creates one for that
\* customer and cancels sub_12345, and the first lists again with the same
\* arguments: both listings are the same.
C10_Witness ==
    /\ Len(log) = 4
    /\ log[1].tool = "list_subscriptions"
    /\ log[2].tool = "create_subscription"
    /\ log[2].args.customer_id = log[1].args.customer_id
    /\ log[3].tool = "cancel_subscription"
    /\ log[3].args.subscription_id = "sub_12345"
    /\ log[4].tool = "list_subscriptions"
    /\ log[4].args = log[1].args
    /\ log[1].caller = log[4].caller
    /\ log[2].caller # log[1].caller
    /\ log[4].result = log[1].result
    /\ log[4].result.value.subscriptions = << PlaceholderSubscription >>

====
